---- MODULE Spec2Model ----
(***************************************************************************)
(* A model of the cellular-automata editor of src/src/App.tsx: the rule    *)
(* engine (getRuleLookup, applyRule), the animated generation              *)
(* (generatePattern and its timer ticks), the seed editing handlers and    *)
(* the SVG exporter (generateSVG).                                         *)
(*                                                                         *)
(* JavaScript values are modelled by strings: the booleans "true" and      *)
(* "false", "null" (an unset cell) and "undefined" (an index outside an    *)
(* array).  Arrays are sequences; the code's 0-based index i is the        *)
(* sequence index i + 1 (see At).                                          *)
(***************************************************************************)
EXTENDS Integers, Sequences, FiniteSets, TLC

VARIABLES
    cols,            \* useState(14)  line 17
    rows,            \* useState(14)  line 18
    rule,            \* useState(30)  line 19
    grid,            \* useState([]), filled by the effect of line 86
    isDrawing,       \* line 22
    tool,            \* line 23
    isAnimating,     \* line 24
    roundedCorners,  \* line 26
    cellSize,        \* line 27
    hasGenerated,    \* line 28
    timeouts,        \* the pending setTimeout callbacks, oldest first; animationRef (line 32) names the newest
    crashed,         \* an exception left a state updater: React has unmounted the editor
    svg,             \* the document the last export returned (NoSvg once the editor has acted again)
    pc,              \* which operation acted last ("init" before any)
    ruleNumber,      \* argument of a direct call of getRuleLookup
    prevRow,         \* argument of a direct call of applyRule
    ruleLookup,      \* result of the direct call of getRuleLookup
    newRow,          \* result of the direct call of applyRule
    exampleGrid      \* result of the call of generateExamplePattern

editorVars == <<cols, rows, rule, grid, isDrawing, tool, isAnimating,
                roundedCorners, cellSize, hasGenerated, timeouts, crashed>>
callVars == <<ruleNumber, prevRow, ruleLookup, newRow, exampleGrid>>
vars == <<editorVars, svg, pc, callVars>>

----------------------------------------------------------------------------
(* Bounds of the model *)

\* longest row handed to a direct call of applyRule
MaxLen == 4

\* most rows of a generation that is left alone
MaxGenRows == 4

\* largest grid handed to a direct call of generateSVG
MaxExportRows == 3
MaxExportCols == 3

\* The editor opens with 14 columns and 14 rows (lines 17-18) and Reset
\* Settings returns to them (lines 180-181).  DefaultCols and DefaultRows
\* stand for that 14, scaled down so that every seed and every grid can be
\* enumerated.
DefaultCols == 2
DefaultRows == 3

\* the values typed into the Columns and the Rows input
ColInputs == 1..DefaultCols
RowInputs == 1..DefaultRows

\* the rules picked besides the default one
RuleInputs == {90}

\* the positions tried of the corner radius and of the cell size slider
RadiusInputs == {3}
CellSizeInputs == {10}

\* useState(14), useState(14): the columns and rows the editor really opens
\* with (lines 17-18), for the direct calls on a seed of that width
InitialCols == 14
InitialRows == 14

\* min="5" and max="50" of the Columns and the Rows input (lines 363-364 and
\* 374-375)
MinDim == 5
MaxDim == 50

\* the values typed into those inputs at their real scale: the two ends of
\* the range and the numbers next to them outside it
DimInputs == {MinDim - 1, MinDim, MaxDim, MaxDim + 1}

\* const size = 14 of generateExamplePattern (line 65)
ExampleSize == 14

\* useState(30), useState(0), useState(20): lines 19, 26, 27
DefaultRule == 30
DefaultRadius == 0
DefaultCellSize == 20

\* values of the cell size slider (8..32, lines 468-470) and of the corner
\* radius slider (0..10, lines 456-457) tried by the direct calls
ExportCellSizes == {10}
ExportRadii == {0, 3}

----------------------------------------------------------------------------
(* JavaScript values *)

JsTrue == "true"
JsFalse == "false"
JsNull == "null"
JsUndefined == "undefined"

\* the result of a comparison (=== '1'), as a JavaScript boolean
Bool(b) == IF b THEN JsTrue ELSE JsFalse

\* truthiness, as tested by `x ? a : b`, `x && y` and `x || y`
Truthy(v) == v = JsTrue

\* arr[i] for a 0-based index: undefined outside the array
At(arr, i) == IF i >= 0 /\ i < Len(arr) THEN arr[i + 1] ELSE JsUndefined

\* x || y
JsOr(x, y) == IF Truthy(x) THEN x ELSE y

\* Array(n).fill(v)
Fill(n, v) == [i \in 1..n |-> v]

\* all arrays of length n over the values of S
Rows(n, S) == [1..n -> S]

----------------------------------------------------------------------------
(* Rule engine: getRuleLookup (lines 96-108) and applyRule (lines 111-119) *)

\* the keys of the lookup table, in the order of lines 99-106
patterns == <<"111", "110", "101", "100", "011", "010", "001", "000">>

Patterns == {patterns[i] : i \in 1..Len(patterns)}

\* n.toString(2): the binary digits of |n|, most significant first, behind a
\* minus sign when n < 0
RECURSIVE ToString2(_)
ToString2(n) ==
    IF n < 0 THEN <<"-">> \o ToString2(-n)
    ELSE IF n < 2 THEN <<IF n = 1 THEN "1" ELSE "0">>
    ELSE Append(ToString2(n \div 2), IF n % 2 = 1 THEN "1" ELSE "0")

\* s.padStart(len, ch): ch is put in front until the length is reached;
\* a string that is already that long is returned as it is
PadStart(s, len, ch) ==
    IF Len(s) >= len THEN s ELSE Fill(len - Len(s), ch) \o s

\* mutant: pads at the end
getRuleLookup_padEnd(n) ==
    LET s == ToString2(n)
        binary == IF Len(s) >= 8 THEN s ELSE s \o Fill(8 - Len(s), "0")
    IN [p \in Patterns |->
          Bool(At(binary, (CHOOSE i \in 1..8 : patterns[i] = p) - 1) = "1")]

getRuleLookup(n) ==
    LET binary == PadStart(ToString2(n), 8, "0")
    IN [p \in Patterns |->
          Bool(At(binary, (CHOOSE i \in 1..8 : patterns[i] = p) - 1) = "1")]

\* `${left ? '1' : '0'}${center ? '1' : '0'}${right ? '1' : '0'}`
Digit(v) == IF Truthy(v) THEN "1" ELSE "0"
Pattern(left, center, right) == Digit(left) \o Digit(center) \o Digit(right)

\* mutant: the neighbours wrap around the edges
applyRule_wrap(row, table) ==
    [j \in 1..Len(row) |->
        LET i == j - 1
            left == At(row, (i - 1 + Len(row)) % Len(row))
            center == At(row, i)
            right == At(row, (i + 1) % Len(row))
        IN table[Pattern(left, center, right)]]

\* mutant: a missing neighbour counts as filled
applyRule_edgeTrue(row, table) ==
    [j \in 1..Len(row) |->
        LET i == j - 1
            left == JsOr(At(row, i - 1), JsTrue)
            center == At(row, i)
            right == JsOr(At(row, i + 1), JsTrue)
        IN table[Pattern(left, center, right)]]

\* mutant: the left neighbour is never read
applyRule_noLeft(row, table) ==
    [j \in 1..Len(row) |->
        LET i == j - 1
            left == JsFalse
            center == At(row, i)
            right == JsOr(At(row, i + 1), JsFalse)
        IN table[Pattern(left, center, right)]]

applyRule(row, table) ==
    [j \in 1..Len(row) |->
        LET i == j - 1
            left == JsOr(At(row, i - 1), JsFalse)
            center == At(row, i)
            right == JsOr(At(row, i + 1), JsFalse)
        IN table[Pattern(left, center, right)]]

\* the table before getRuleLookup is called
NoTable == [p \in Patterns |-> JsUndefined]

\* mutant: the neighbours wrap around the edges of the example
ExampleRow_wrap(above, table) ==
    [j \in 1..Len(above) |->
        LET c == j - 1
            left == At(above, (c - 1 + Len(above)) % Len(above))
            center == At(above, c)
            right == At(above, (c + 1) % Len(above))
        IN table[Pattern(left, center, right)]]

\* lines 73-79: row r of the example, from row r-1 (above)
ExampleRow(above, table) ==
    [j \in 1..Len(above) |->
        LET c == j - 1
            left == JsOr(At(above, c - 1), JsFalse)
            center == At(above, c)
            right == JsOr(At(above, c + 1), JsFalse)
        IN table[Pattern(left, center, right)]]

\* lines 72-80: the loop over r, from row r on
RECURSIVE ExampleRows(_, _, _, _)
ExampleRows(r, example, table, size) ==
    IF r >= size THEN example
    ELSE ExampleRows(r + 1,
                     [example EXCEPT ![r + 1] = ExampleRow(example[r], table)],
                     table, size)

\* lines 64-83
generateExamplePattern(n) ==
    LET size == ExampleSize
        empty == [r \in 1..size |-> Fill(size, JsFalse)]
        seeded == [empty EXCEPT ![1][(size \div 2) + 1] = JsTrue]
    IN ExampleRows(1, seeded, getRuleLookup(n), size)

----------------------------------------------------------------------------
(* Vector exporter: generateSVG (lines 232-297) *)

\* the value before any export
NoSvg == [width |-> -1, height |-> -1, rects |-> <<>>]

\* grid[r] && grid[r][c], for r >= 0
GridCell(g, r, c) == IF r < Len(g) THEN At(g[r + 1], c) ELSE JsUndefined

\* mutant: every cell that is not false counts as filled
IsFilled_notFalse(g, r, c) == GridCell(g, r, c) # JsFalse

\* if (grid[r] && grid[r][c])
IsFilled(g, r, c) == Truthy(GridCell(g, r, c))

\* lines 237-244: the binary matrix of the filled cells
Matrix(g, nrows, ncols) ==
    [r \in 0..(nrows - 1) |-> [c \in 0..(ncols - 1) |-> IsFilled(g, r, c)]]

\* line 247
NoneVisited(nrows, ncols) ==
    [r \in 0..(nrows - 1) |-> [c \in 0..(ncols - 1) |-> FALSE]]

\* mutant: diagonal neighbours are pushed too
Neighbours_diagonal(cr, cc) ==
    << <<cr - 1, cc>>, <<cr + 1, cc>>, <<cr, cc - 1>>, <<cr, cc + 1>>,
       <<cr - 1, cc - 1>>, <<cr + 1, cc + 1>> >>

\* line 263: stack.push([cr-1, cc], [cr+1, cc], [cr, cc-1], [cr, cc+1])
Neighbours(cr, cc) ==
    << <<cr - 1, cc>>, <<cr + 1, cc>>, <<cr, cc - 1>>, <<cr, cc + 1>> >>

\* mutant: the fill does not test the matrix, so it runs over empty cells
RECURSIVE FloodFill_ignoreMatrix(_, _, _, _, _, _)
FloodFill_ignoreMatrix(stack, visited, component, matrix, nrows, ncols) ==
    IF Len(stack) = 0 THEN [visited |-> visited, component |-> component, pops |-> 0]
    ELSE
        LET top == stack[Len(stack)]
            rest == SubSeq(stack, 1, Len(stack) - 1)
            cr == top[1]
            cc == top[2]
            after ==
                IF \/ cr < 0 \/ cr >= nrows \/ cc < 0 \/ cc >= ncols
                   \/ visited[cr][cc]
                THEN FloodFill_ignoreMatrix(rest, visited, component, matrix, nrows, ncols)
                ELSE FloodFill_ignoreMatrix(rest \o Neighbours(cr, cc),
                                            [visited EXCEPT ![cr][cc] = TRUE],
                                            Append(component, <<cr, cc>>),
                                            matrix, nrows, ncols)
        IN [after EXCEPT !.pops = @ + 1]

\* lines 255-264: the stack loop of the flood fill; pops counts the
\* iterations of the loop (one stack.pop() each)
RECURSIVE FloodFill(_, _, _, _, _, _)
FloodFill(stack, visited, component, matrix, nrows, ncols) ==
    IF Len(stack) = 0 THEN [visited |-> visited, component |-> component, pops |-> 0]
    ELSE
        LET top == stack[Len(stack)]
            rest == SubSeq(stack, 1, Len(stack) - 1)
            cr == top[1]
            cc == top[2]
            after ==
                IF \/ cr < 0 \/ cr >= nrows \/ cc < 0 \/ cc >= ncols
                   \/ visited[cr][cc] \/ ~matrix[cr][cc]
                THEN FloodFill(rest, visited, component, matrix, nrows, ncols)
                ELSE FloodFill(rest \o Neighbours(cr, cc),
                               [visited EXCEPT ![cr][cc] = TRUE],
                               Append(component, <<cr, cc>>),
                               matrix, nrows, ncols)
        IN [after EXCEPT !.pops = @ + 1]

\* Math.min(...xs) and Math.max(...xs) of a non-empty set
MinOf(S) == CHOOSE x \in S : \A y \in S : x <= y
MaxOf(S) == CHOOSE x \in S : \A y \in S : x >= y

\* lines 267-277: the rectangle of a component's bounding box
BoundingRect(component, size, radius) ==
    LET rs == {component[i][1] : i \in 1..Len(component)}
        cs == {component[i][2] : i \in 1..Len(component)}
        minR == MinOf(rs)
        maxR == MaxOf(rs)
        minC == MinOf(cs)
        maxC == MaxOf(cs)
    IN [x |-> minC * size, y |-> minR * size,
        width |-> (maxC - minC + 1) * size, height |-> (maxR - minR + 1) * size,
        rx |-> radius, ry |-> radius, fill |-> "#000"]

\* mutant: the new rectangle is put in front
Emit_prepend(path, rect) == <<rect>> \o path

\* path += `<rect .../>`
Emit(path, rect) == Append(path, rect)

\* mutant: every flood fill starts with a visited matrix of its own
RECURSIVE Scan_freshVisited(_, _, _, _, _, _, _)
Scan_freshVisited(k, acc, matrix, nrows, ncols, size, radius) ==
    IF k >= nrows * ncols THEN acc
    ELSE
        LET r == k \div ncols
            c == k % ncols
        IN IF matrix[r][c] /\ ~acc.visited[r][c]
           THEN LET f == FloodFill(<< <<r, c>> >>, NoneVisited(nrows, ncols), <<>>,
                                   matrix, nrows, ncols)
                IN Scan_freshVisited(k + 1,
                        IF Len(f.component) > 0
                        THEN [visited |-> f.visited,
                              components |-> Append(acc.components, f.component),
                              path |-> Emit(acc.path, BoundingRect(f.component, size, radius)),
                              pops |-> acc.pops + f.pops]
                        ELSE [acc EXCEPT !.visited = f.visited, !.pops = @ + f.pops],
                        matrix, nrows, ncols, size, radius)
           ELSE Scan_freshVisited(k + 1, acc, matrix, nrows, ncols, size, radius)

\* lines 249-281: the row-major scan, from cell k = r * cols + c on.  acc holds
\* visited, path and the components found so far (the list the copy of
\* lines 948-970 keeps in `components`), and the iterations of the flood
\* fill loops so far.
RECURSIVE Scan(_, _, _, _, _, _, _)
Scan(k, acc, matrix, nrows, ncols, size, radius) ==
    IF k >= nrows * ncols THEN acc
    ELSE
        LET r == k \div ncols
            c == k % ncols
        IN IF matrix[r][c] /\ ~acc.visited[r][c]
           THEN LET f == FloodFill(<< <<r, c>> >>, acc.visited, <<>>, matrix, nrows, ncols)
                IN Scan(k + 1,
                        IF Len(f.component) > 0
                        THEN [visited |-> f.visited,
                              components |-> Append(acc.components, f.component),
                              path |-> Emit(acc.path, BoundingRect(f.component, size, radius)),
                              pops |-> acc.pops + f.pops]
                        ELSE [acc EXCEPT !.visited = f.visited, !.pops = @ + f.pops],
                        matrix, nrows, ncols, size, radius)
           ELSE Scan(k + 1, acc, matrix, nrows, ncols, size, radius)

\* the scan of lines 246-281 from its start
ScanAll(g, nrows, ncols, size, radius) ==
    Scan(0,
         [visited |-> NoneVisited(nrows, ncols), components |-> <<>>, path |-> <<>>,
          pops |-> 0],
         Matrix(g, nrows, ncols), nrows, ncols, size, radius)

\* mutant: x and y are exchanged
PlainRect_swapped(r, c, size) ==
    [x |-> r * size, y |-> c * size, width |-> size, height |-> size, fill |-> "#000"]

\* lines 289-291
PlainRect(r, c, size) ==
    [x |-> c * size, y |-> r * size, width |-> size, height |-> size, fill |-> "#000"]

\* lines 285-294: one rectangle per filled cell, from cell k = r * cols + c on
RECURSIVE PlainRects(_, _, _, _, _, _)
PlainRects(k, rects, g, nrows, ncols, size) ==
    IF k >= nrows * ncols THEN rects
    ELSE
        LET r == k \div ncols
            c == k % ncols
        IN PlainRects(k + 1,
                      IF IsFilled(g, r, c) THEN Emit(rects, PlainRect(r, c, size)) ELSE rects,
                      g, nrows, ncols, size)

\* mutant: the canvas takes its width from the rows and its height from the columns
generateSVG_transposed(g, nrows, ncols, size, radius) ==
    LET width == nrows * size
        height == ncols * size
    IN IF radius > 0
       THEN [width |-> width, height |-> height,
             rects |-> ScanAll(g, nrows, ncols, size, radius).path]
       ELSE [width |-> width, height |-> height,
             rects |-> PlainRects(0, <<>>, g, nrows, ncols, size)]

\* lines 232-297: the document, as the width and height of the envelope and
\* the list of its <rect> elements with their attributes
generateSVG(g, nrows, ncols, size, radius) ==
    LET width == ncols * size
        height == nrows * size
    IN IF radius > 0
       THEN [width |-> width, height |-> height,
             rects |-> ScanAll(g, nrows, ncols, size, radius).path]
       ELSE [width |-> width, height |-> height,
             rects |-> PlainRects(0, <<>>, g, nrows, ncols, size)]

\* lines 948-970, the second copy of the exporter: the same row-major scan and
\* the same flood fill (lines 955-964 repeat lines 255-264), which only
\* collects the components; acc holds visited and components
RECURSIVE CollectComponents(_, _, _, _, _)
CollectComponents(k, acc, matrix, nrows, ncols) ==
    IF k >= nrows * ncols THEN acc.components
    ELSE
        LET r == k \div ncols
            c == k % ncols
        IN IF matrix[r][c] /\ ~acc.visited[r][c]
           THEN LET f == FloodFill(<< <<r, c>> >>, acc.visited, <<>>, matrix, nrows, ncols)
                IN CollectComponents(k + 1,
                        [visited |-> f.visited,
                         components |-> IF Len(f.component) > 0
                                        THEN Append(acc.components, f.component)
                                        ELSE acc.components],
                        matrix, nrows, ncols)
           ELSE CollectComponents(k + 1, acc, matrix, nrows, ncols)

\* mutant: the single cell is placed with its row as x and its column as y
SingleCellRect_swapped(component, size, radius) ==
    LET r == component[1][1]
        c == component[1][2]
    IN [x |-> r * size, y |-> c * size, width |-> size, height |-> size,
        rx |-> radius, ry |-> radius, fill |-> "#000"]

\* lines 977-982: component.length === 1
SingleCellRect(component, size, radius) ==
    LET r == component[1][1]
        c == component[1][2]
    IN [x |-> c * size, y |-> r * size, width |-> size, height |-> size,
        rx |-> radius, ry |-> radius, fill |-> "#000"]

\* lines 975-998: components.forEach, from the i-th component on; the
\* branch of lines 983-997 repeats lines 267-277
RECURSIVE ComponentRects(_, _, _, _, _)
ComponentRects(i, paths, components, size, radius) ==
    IF i > Len(components) THEN paths
    ELSE ComponentRects(i + 1,
                        IF Len(components[i]) = 1
                        THEN Emit(paths, SingleCellRect(components[i], size, radius))
                        ELSE Emit(paths, BoundingRect(components[i], size, radius)),
                        components, size, radius)

\* lines 929-1000: the rounded branch of the second copy of generateSVG
generateSVG_collected(g, nrows, ncols, size, radius) ==
    LET width == ncols * size
        height == nrows * size
        components == CollectComponents(0,
                          [visited |-> NoneVisited(nrows, ncols), components |-> <<>>],
                          Matrix(g, nrows, ncols), nrows, ncols)
    IN [width |-> width, height |-> height,
        rects |-> ComponentRects(1, <<>>, components, size, radius)]

\* mutant: the flood fill marks the cells it visits in the grid itself
Export_inPlace ==
    /\ ~crashed
    /\ svg' = generateSVG(grid, rows, cols, cellSize, roundedCorners)
    /\ grid' = IF roundedCorners > 0
               THEN [i \in 1..Len(grid) |->
                       [j \in 1..Len(grid[i]) |->
                           IF grid[i][j] = JsTrue THEN JsFalse ELSE grid[i][j]]]
               ELSE grid
    /\ UNCHANGED <<cols, rows, rule, isDrawing, tool, isAnimating, roundedCorners,
                   cellSize, hasGenerated, timeouts, crashed, pc, callVars>>

\* saveAsSVG (lines 300-309) and copyToFigma (lines 312-320): both hand out
\* generateSVG() and leave the editor as it is
Export ==
    /\ ~crashed
    /\ svg' = generateSVG(grid, rows, cols, cellSize, roundedCorners)
    /\ UNCHANGED <<editorVars, pc, callVars>>

----------------------------------------------------------------------------
(* The editor: state handlers of CellularAutomataEditor (lines 16-320) *)

\* lines 87-89: row 0 empty, every other row unset
FreshGrid(nrows, ncols) ==
    [i \in 1..nrows |-> Fill(ncols, IF i = 1 THEN JsFalse ELSE JsNull)]

\* the editor once the component is mounted and the effect of lines 86-93 has
\* run; the state fields that are written and never read (animationRow) or
\* that only drive the rule search box and the info modal are left out
EditorInit ==
    /\ cols = DefaultCols
    /\ rows = DefaultRows
    /\ rule = DefaultRule
    /\ grid = FreshGrid(DefaultRows, DefaultCols)
    /\ isDrawing = FALSE
    /\ tool = "draw"
    /\ isAnimating = FALSE
    /\ roundedCorners = DefaultRadius
    /\ cellSize = DefaultCellSize
    /\ hasGenerated = FALSE
    /\ timeouts = <<>>
    /\ crashed = FALSE

Init ==
    /\ EditorInit
    /\ svg = NoSvg
    /\ pc = "editor"
    /\ ruleNumber = 0 /\ prevRow = <<>> /\ ruleLookup = NoTable /\ newRow = <<>>
    /\ exampleGrid = <<>>

\* what no handler of the editor touches
Frame == UNCHANGED <<pc, callVars>>

\* mutant: the seed row is carried over into the new grid
DimensionEffect_keepSeed(nrows, ncols) ==
    IF nrows # rows \/ ncols # cols
    THEN /\ grid' = [i \in 1..nrows |->
                        [c \in 1..ncols |->
                            IF i > 1 THEN JsNull
                            ELSE IF Len(grid) > 0 /\ c <= Len(grid[1]) THEN grid[1][c]
                            ELSE JsFalse]]
         /\ hasGenerated' = FALSE
    ELSE UNCHANGED <<grid, hasGenerated>>

\* the effect of lines 86-93, which runs when rows or cols has changed
DimensionEffect(nrows, ncols) ==
    IF nrows # rows \/ ncols # cols
    THEN /\ grid' = FreshGrid(nrows, ncols)
         /\ hasGenerated' = FALSE
    ELSE UNCHANGED <<grid, hasGenerated>>

\* line 366: onChange={(e) => setCols(Number(e.target.value))}
SetCols(n) ==
    /\ ~crashed
    /\ cols' = n
    /\ DimensionEffect(rows, n)
    /\ svg' = NoSvg
    /\ UNCHANGED <<rows, rule, isDrawing, tool, isAnimating, roundedCorners,
                   cellSize, timeouts, crashed>>
    /\ Frame

\* line 377: onChange={(e) => setRows(Number(e.target.value))}
SetRows(n) ==
    /\ ~crashed
    /\ rows' = n
    /\ DimensionEffect(n, cols)
    /\ svg' = NoSvg
    /\ UNCHANGED <<cols, rule, isDrawing, tool, isAnimating, roundedCorners,
                   cellSize, timeouts, crashed>>
    /\ Frame

\* lines 402-406 and 428: the rule dropdown and the popular rule pills
SetRule(r) ==
    /\ ~crashed
    /\ rule' = r
    /\ svg' = NoSvg
    /\ UNCHANGED <<cols, rows, grid, isDrawing, tool, isAnimating, roundedCorners,
                   cellSize, hasGenerated, timeouts, crashed>>
    /\ Frame

\* lines 483 and 494
SetTool(t) ==
    /\ ~crashed
    /\ tool' = t
    /\ svg' = NoSvg
    /\ UNCHANGED <<cols, rows, rule, grid, isDrawing, isAnimating, roundedCorners,
                   cellSize, hasGenerated, timeouts, crashed>>
    /\ Frame

\* line 459
SetRoundedCorners(v) ==
    /\ ~crashed
    /\ roundedCorners' = v
    /\ svg' = NoSvg
    /\ UNCHANGED <<cols, rows, rule, grid, isDrawing, tool, isAnimating,
                   cellSize, hasGenerated, timeouts, crashed>>
    /\ Frame

\* line 472
SetCellSize(v) ==
    /\ ~crashed
    /\ cellSize' = v
    /\ svg' = NoSvg
    /\ UNCHANGED <<cols, rows, rule, grid, isDrawing, tool, isAnimating,
                   roundedCorners, hasGenerated, timeouts, crashed>>
    /\ Frame

\* mutant: the eraser leaves the cell unset
handleCellInteraction_eraseUnset(g, rowIndex, colIndex, isClick) ==
    IF rowIndex # 0 THEN g
    ELSE IF isClick \/ isDrawing
         THEN [g EXCEPT ![1][colIndex + 1] = IF tool = "draw" THEN JsTrue ELSE JsNull]
         ELSE g

\* mutant: the row index is not tested, the cell of any row is edited
handleCellInteraction_anyRow(g, rowIndex, colIndex, isClick) ==
    IF isClick \/ isDrawing
    THEN [g EXCEPT ![rowIndex + 1][colIndex + 1] = IF tool = "draw" THEN JsTrue ELSE JsFalse]
    ELSE g

\* lines 122-132: the grid handleCellInteraction leaves
handleCellInteraction(g, rowIndex, colIndex, isClick) ==
    IF rowIndex # 0 THEN g
    ELSE IF isClick \/ isDrawing
         THEN [g EXCEPT ![1][colIndex + 1] = IF tool = "draw" THEN JsTrue ELSE JsFalse]
         ELSE g

\* lines 605-610: onMouseDown of the cell (rowIndex, colIndex)
MouseDown(rowIndex, colIndex) ==
    /\ ~crashed
    /\ IF rowIndex = 0
       THEN /\ isDrawing' = TRUE
            /\ grid' = handleCellInteraction(grid, rowIndex, colIndex, TRUE)
       ELSE UNCHANGED <<isDrawing, grid>>
    /\ svg' = NoSvg
    /\ UNCHANGED <<cols, rows, rule, tool, isAnimating, roundedCorners,
                   cellSize, hasGenerated, timeouts, crashed>>
    /\ Frame

\* line 611: onMouseEnter of the cell (rowIndex, colIndex)
MouseEnter(rowIndex, colIndex) ==
    /\ ~crashed
    /\ grid' = handleCellInteraction(grid, rowIndex, colIndex, FALSE)
    /\ svg' = NoSvg
    /\ UNCHANGED <<cols, rows, rule, isDrawing, tool, isAnimating, roundedCorners,
                   cellSize, hasGenerated, timeouts, crashed>>
    /\ Frame

\* line 612: onMouseUp
MouseUp ==
    /\ ~crashed
    /\ isDrawing' = FALSE
    /\ svg' = NoSvg
    /\ UNCHANGED <<cols, rows, rule, grid, tool, isAnimating, roundedCorners,
                   cellSize, hasGenerated, timeouts, crashed>>
    /\ Frame

\* lines 139-141 and 212-214: rows 1..rows-1 of a copy of g are replaced by
\* unset rows; a row past them stays
ClearedBelowSeed(g) ==
    [i \in 1..(IF Len(g) > rows THEN Len(g) ELSE rows) |->
        IF i = 1 /\ i <= Len(g) THEN g[i]
        ELSE IF i <= rows THEN Fill(cols, JsNull)
        ELSE g[i]]

\* lines 135-146, with seed the row the calls of Math.random() draw
generateRandomSeed(seed) ==
    /\ ~crashed
    /\ grid' = [ClearedBelowSeed(grid) EXCEPT ![1] = seed]
    /\ hasGenerated' = FALSE
    /\ svg' = NoSvg
    /\ UNCHANGED <<cols, rows, rule, isDrawing, tool, isAnimating, roundedCorners,
                   cellSize, timeouts, crashed>>
    /\ Frame

\* mutant: every row is computed from the seed row
AnimateRow_fromSeed(g, currentRow, table) ==
    IF currentRow < Len(g)
    THEN [g EXCEPT ![currentRow + 1] = applyRule(g[1], table)]
    ELSE Append(g, applyRule(g[1], table))

\* lines 163-169: newGrid[currentRow] = applyRule(newGrid[currentRow - 1], ruleLookup),
\* for 1 <= currentRow <= g.length
AnimateRow(g, currentRow, table) ==
    IF currentRow < Len(g)
    THEN [g EXCEPT ![currentRow + 1] = applyRule(g[currentRow], table)]
    ELSE Append(g, applyRule(g[currentRow], table))

\* mutant: the recursion stops one row late
animate_pastEnd(currentRow, genRows, table, pending, animating) ==
    IF currentRow > genRows
    THEN /\ isAnimating' = FALSE
         /\ hasGenerated' = TRUE
         /\ timeouts' = pending
         /\ UNCHANGED <<grid, crashed>>
    ELSE IF currentRow - 1 >= Len(grid)
    THEN /\ crashed' = TRUE
         /\ timeouts' = <<>>
         /\ isAnimating' = animating
         /\ UNCHANGED <<grid, hasGenerated>>
    ELSE /\ grid' = AnimateRow(grid, currentRow, table)
         /\ timeouts' = Append(pending, [currentRow |-> currentRow + 1,
                                          rows |-> genRows,
                                          ruleLookup |-> table])
         /\ isAnimating' = animating
         /\ UNCHANGED <<hasGenerated, crashed>>

\* lines 156-173: animate(currentRow) in the closure of a generatePattern call
\* that read genRows and compiled table; pending are the other timeouts and
\* animating is isAnimating as the caller leaves it
animate(currentRow, genRows, table, pending, animating) ==
    IF currentRow >= genRows
    THEN /\ isAnimating' = FALSE
         /\ hasGenerated' = TRUE
         /\ timeouts' = pending
         /\ UNCHANGED <<grid, crashed>>
    ELSE IF currentRow - 1 >= Len(grid)
    THEN \* applyRule(undefined, ruleLookup) throws in the state updater
         /\ crashed' = TRUE
         /\ timeouts' = <<>>
         /\ isAnimating' = animating
         /\ UNCHANGED <<grid, hasGenerated>>
    ELSE /\ grid' = AnimateRow(grid, currentRow, table)
         /\ timeouts' = Append(pending, [currentRow |-> currentRow + 1,
                                          rows |-> genRows,
                                          ruleLookup |-> table])
         /\ isAnimating' = animating
         /\ UNCHANGED <<hasGenerated, crashed>>

\* mutant: no early return while a generation runs
generatePattern_noGuard ==
    /\ ~crashed
    /\ animate(1, rows, getRuleLookup(rule), timeouts, TRUE)
    /\ svg' = NoSvg
    /\ UNCHANGED <<cols, rows, rule, isDrawing, tool, roundedCorners, cellSize>>
    /\ Frame

\* lines 149-176: setIsAnimating(true), then animate(1)
generatePattern ==
    /\ ~crashed
    /\ IF isAnimating
       THEN UNCHANGED <<grid, isAnimating, hasGenerated, timeouts, crashed, svg>>
       ELSE /\ animate(1, rows, getRuleLookup(rule), timeouts, TRUE)
            /\ svg' = NoSvg
    /\ UNCHANGED <<cols, rows, rule, isDrawing, tool, roundedCorners, cellSize>>
    /\ Frame

\* mutant: the tick compiles the table from the rule selected when it fires
Tick_currentRule ==
    /\ ~crashed
    /\ Len(timeouts) > 0
    /\ LET t == Head(timeouts)
       IN animate(t.currentRow, t.rows, getRuleLookup(rule), Tail(timeouts), isAnimating)
    /\ svg' = NoSvg
    /\ UNCHANGED <<cols, rows, rule, isDrawing, tool, roundedCorners, cellSize>>
    /\ Frame

\* line 172: the oldest pending timeout fires and runs animate(currentRow + 1)
Tick ==
    /\ ~crashed
    /\ Len(timeouts) > 0
    /\ LET t == Head(timeouts)
       IN animate(t.currentRow, t.rows, t.ruleLookup, Tail(timeouts), isAnimating)
    /\ svg' = NoSvg
    /\ UNCHANGED <<cols, rows, rule, isDrawing, tool, roundedCorners, cellSize>>
    /\ Frame

\* mutant: the timeout is left pending
clearTimeout_forgotten(pending) == pending

\* clearTimeout(animationRef.current): animationRef names the timeout that was
\* set last, which is the last to fire (all delays are 50 ms)
clearTimeout(pending) ==
    IF Len(pending) = 0 THEN pending ELSE SubSeq(pending, 1, Len(pending) - 1)

\* lines 179-193
resetToDefaults ==
    /\ ~crashed
    /\ cols' = DefaultCols
    /\ rows' = DefaultRows
    /\ rule' = DefaultRule
    /\ roundedCorners' = DefaultRadius
    /\ cellSize' = DefaultCellSize
    /\ tool' = "draw"
    /\ timeouts' = clearTimeout(timeouts)
    /\ isAnimating' = FALSE
    /\ IF DefaultRows # rows \/ DefaultCols # cols
       THEN grid' = FreshGrid(DefaultRows, DefaultCols)
       ELSE UNCHANGED grid
    /\ hasGenerated' = FALSE
    /\ svg' = NoSvg
    /\ UNCHANGED <<isDrawing, crashed>>
    /\ Frame

\* lines 196-206; the button is rendered only when hasGenerated (line 520)
clearAll ==
    /\ ~crashed
    /\ hasGenerated
    /\ grid' = FreshGrid(rows, cols)
    /\ hasGenerated' = FALSE
    /\ timeouts' = clearTimeout(timeouts)
    /\ isAnimating' = FALSE
    /\ svg' = NoSvg
    /\ UNCHANGED <<cols, rows, rule, isDrawing, tool, roundedCorners, cellSize, crashed>>
    /\ Frame

\* lines 209-223; the button is rendered only when hasGenerated (line 520)
resetImage ==
    /\ ~crashed
    /\ hasGenerated
    /\ grid' = ClearedBelowSeed(grid)
    /\ hasGenerated' = FALSE
    /\ timeouts' = clearTimeout(timeouts)
    /\ isAnimating' = FALSE
    /\ svg' = NoSvg
    /\ UNCHANGED <<cols, rows, rule, isDrawing, tool, roundedCorners, cellSize, crashed>>
    /\ Frame

Next ==
    \/ \E n \in ColInputs : SetCols(n)
    \/ \E n \in RowInputs : SetRows(n)
    \/ \E r \in RuleInputs : SetRule(r)
    \/ \E t \in {"draw", "erase"} : SetTool(t)
    \/ \E v \in RadiusInputs : SetRoundedCorners(v)
    \/ \E v \in CellSizeInputs : SetCellSize(v)
    \/ \E r \in 0..(Len(grid) - 1) : \E c \in 0..(Len(grid[r + 1]) - 1) :
          MouseDown(r, c) \/ MouseEnter(r, c)
    \/ MouseUp
    \/ \E seed \in Rows(cols, {JsTrue, JsFalse}) : generateRandomSeed(seed)
    \/ generatePattern
    \/ Tick
    \/ resetToDefaults
    \/ clearAll
    \/ resetImage
    \/ Export

Spec == Init /\ [][Next]_vars

----------------------------------------------------------------------------
(* A generation left alone: the editor with a seed drawn and a rule picked, *)
(* where only Generate Pattern is clicked and the timeouts fire             *)

InitGenerate ==
    /\ rows \in 1..MaxGenRows
    /\ cols \in 1..MaxLen
    /\ \E seed \in Rows(cols, {JsTrue, JsFalse}) :
          grid = [FreshGrid(rows, cols) EXCEPT ![1] = seed]
    /\ rule \in 0..255
    /\ isDrawing = FALSE /\ tool = "draw" /\ isAnimating = FALSE
    /\ roundedCorners = DefaultRadius /\ cellSize = DefaultCellSize
    /\ hasGenerated = FALSE /\ timeouts = <<>> /\ crashed = FALSE
    /\ svg = NoSvg
    /\ pc = "editor"
    /\ ruleNumber = 0 /\ prevRow = <<>> /\ ruleLookup = NoTable /\ newRow = <<>>
    /\ exampleGrid = <<>>

NextGenerate == generatePattern \/ Tick

SpecGenerate == InitGenerate /\ [][NextGenerate]_vars

\* lines 35-46: the rules of the library
popularRules == {30, 90, 110, 184, 150, 54, 126, 18, 22, 73}

\* the same, with a rule of the library picked
InitGeneratePopular == InitGenerate /\ rule \in popularRules

\* line 172: a timeout that was set fires, 50 ms later
SpecGenerateFair == InitGeneratePopular /\ [][NextGenerate]_vars /\ WF_vars(Tick)

----------------------------------------------------------------------------
(* A drawing session: the editor where the seed is drawn and erased with    *)
(* the mouse, the grid is resized and patterns are generated, with the rule *)
(* and the export settings left at their defaults                           *)

NextDraw ==
    \/ \E t \in {"draw", "erase"} : SetTool(t)
    \/ \E r \in 0..(Len(grid) - 1) : \E c \in 0..(Len(grid[r + 1]) - 1) :
          MouseDown(r, c) \/ MouseEnter(r, c)
    \/ MouseUp
    \/ \E n \in ColInputs : SetCols(n)
    \/ \E n \in RowInputs : SetRows(n)
    \/ generatePattern
    \/ Tick

SpecDraw == Init /\ [][NextDraw]_vars

----------------------------------------------------------------------------
(* The editor at its real size, where only the Columns and the Rows input   *)
(* are used and patterns are generated from the empty seed                  *)

InitDims ==
    /\ cols = InitialCols
    /\ rows = InitialRows
    /\ rule = DefaultRule
    /\ grid = FreshGrid(InitialRows, InitialCols)
    /\ isDrawing = FALSE /\ tool = "draw" /\ isAnimating = FALSE
    /\ roundedCorners = DefaultRadius /\ cellSize = DefaultCellSize
    /\ hasGenerated = FALSE /\ timeouts = <<>> /\ crashed = FALSE
    /\ svg = NoSvg
    /\ pc = "editor"
    /\ ruleNumber = 0 /\ prevRow = <<>> /\ ruleLookup = NoTable /\ newRow = <<>>
    /\ exampleGrid = <<>>

NextDims ==
    \/ \E n \in DimInputs : SetCols(n)
    \/ \E n \in DimInputs : SetRows(n)
    \/ generatePattern
    \/ Tick

SpecDims == InitDims /\ [][NextDims]_vars

----------------------------------------------------------------------------
(* Direct calls of the exporter on every well-formed grid of a bounded size *)

\* the rows a grid holds: a row of booleans, or a row not generated yet
GridRows(n) == Rows(n, {JsTrue, JsFalse}) \cup {Fill(n, JsNull)}

\* the grids of nrows x ncols cells whose row 0 is a seed
Grids(nrows, ncols) ==
    {g \in [1..nrows -> GridRows(ncols)] : g[1] # Fill(ncols, JsNull)}

InitExport ==
    /\ rows \in 1..MaxExportRows
    /\ cols \in 1..MaxExportCols
    /\ grid \in Grids(rows, cols)
    /\ cellSize \in ExportCellSizes
    /\ roundedCorners \in ExportRadii
    /\ rule = 30 /\ isDrawing = FALSE /\ tool = "draw" /\ isAnimating = FALSE
    /\ hasGenerated = FALSE /\ timeouts = <<>> /\ crashed = FALSE
    /\ svg = NoSvg
    /\ pc = "init"
    /\ ruleNumber = 0 /\ prevRow = <<>> /\ ruleLookup = NoTable /\ newRow = <<>>
    /\ exampleGrid = <<>>

NextExport == Export

SpecExport == InitExport /\ [][NextExport]_vars

----------------------------------------------------------------------------
(* Direct calls of the rule engine *)

\* the rows of n cells with exactly one filled cell
SingleSeeds(n) == {[i \in 1..n |-> Bool(i = k)] : k \in 1..n}

\* the calls start from any rule of the dropdown and from any short row or
\* any single-cell seed of the editor's width
InitRule ==
    /\ EditorInit
    /\ svg = NoSvg
    /\ pc = "init"
    /\ ruleNumber \in 0..255
    /\ \/ \E n \in 0..MaxLen : prevRow \in Rows(n, {JsTrue, JsFalse})
       \/ prevRow \in SingleSeeds(InitialCols)
    /\ ruleLookup = NoTable
    /\ newRow = <<>>
    /\ exampleGrid = <<>>

CallGetRuleLookup ==
    /\ pc = "init"
    /\ ruleLookup' = getRuleLookup(ruleNumber)
    /\ pc' = "compiled"
    /\ UNCHANGED <<editorVars, svg, ruleNumber, prevRow, newRow, exampleGrid>>

CallApplyRule ==
    /\ pc = "compiled"
    /\ newRow' = applyRule(prevRow, ruleLookup)
    /\ pc' = "stepped"
    /\ UNCHANGED <<editorVars, svg, ruleNumber, prevRow, ruleLookup, exampleGrid>>

\* the rule info modal renders generateExamplePattern(selectedRuleInfo),
\* which compiles the table itself (line 70)
CallGenerateExamplePattern ==
    /\ pc = "init"
    /\ ruleLookup' = getRuleLookup(ruleNumber)
    /\ exampleGrid' = generateExamplePattern(ruleNumber)
    /\ pc' = "example"
    /\ UNCHANGED <<editorVars, svg, ruleNumber, prevRow, newRow>>

NextRule == CallGetRuleLookup \/ CallApplyRule \/ CallGenerateExamplePattern

SpecRule == InitRule /\ [][NextRule]_vars

\* the numbers handed to getRuleLookup when the caller is not the dropdown:
\* the rule indices and 256 numbers on either side of them
RuleCallInputs == (-256)..511

InitRuleAny ==
    /\ EditorInit
    /\ svg = NoSvg
    /\ pc = "init"
    /\ ruleNumber \in RuleCallInputs
    /\ \/ \E n \in 0..MaxLen : prevRow \in Rows(n, {JsTrue, JsFalse})
       \/ prevRow \in SingleSeeds(InitialCols)
    /\ ruleLookup = NoTable
    /\ newRow = <<>>
    /\ exampleGrid = <<>>

SpecRuleAny == InitRuleAny /\ [][NextRule]_vars

----------------------------------------------------------------------------
(* Claims about the rule engine, checked under SpecRule *)

\* bit k (0 = least significant) of n
BitOf(n, k) == (n \div (2 ^ k)) % 2

RECURSIVE Weight(_, _)
\* the value of the digits of s from position k on, read as a binary number
Weight(s, k) ==
    IF k > Len(s) THEN 0
    ELSE (IF s[k] = JsTrue THEN 2 ^ (Len(s) - k) ELSE 0) + Weight(s, k + 1)

\* C1: getRuleLookup(n) has exactly the 8 keys 111..000; the value of the
\* i-th key is true iff the i-th digit (from the most significant) of n's
\* 8-bit expansion is 1, that is, the key left-center-right read as a 3-bit
\* number k selects bit k of n.
C1_RuleTable ==
    pc # "init" =>
        /\ DOMAIN ruleLookup = {"111", "110", "101", "100", "011", "010", "001", "000"}
        /\ \A i \in 0..7 :
              ruleLookup[patterns[i + 1]] = Bool(BitOf(ruleNumber, 7 - i) = 1)
        /\ \A nb \in Rows(3, {JsTrue, JsFalse}) :
              ruleLookup[Pattern(nb[1], nb[2], nb[3])]
                  = Bool(BitOf(ruleNumber, Weight(nb, 1)) = 1)

C1_Witness ==
    /\ pc = "compiled" /\ ruleNumber = 30
    /\ ruleLookup["100"] = JsTrue /\ ruleLookup["011"] = JsTrue
    /\ ruleLookup["111"] = JsFalse /\ ruleLookup["000"] = JsFalse

\* the row with the cell at 0-based index i negated
Flip(row, i) ==
    [row EXCEPT ![i + 1] = IF row[i + 1] = JsTrue THEN JsFalse ELSE JsTrue]

\* C2: applyRule(R, T) has the length of R and its cell i is T[left center
\* right], where a neighbour outside the row is false; for N >= 3 the cell
\* at column 0 does not depend on R[N-1], nor the cell at N-1 on R[0].
C2_ApplyRule ==
    pc = "stepped" =>
        LET N == Len(prevRow) IN
        /\ Len(newRow) = N
        /\ \A i \in 0..(N - 1) :
              LET left == IF i = 0 THEN JsFalse ELSE prevRow[i]
                  center == prevRow[i + 1]
                  right == IF i = N - 1 THEN JsFalse ELSE prevRow[i + 2]
              IN newRow[i + 1] = ruleLookup[Pattern(left, center, right)]
        /\ N >= 3 =>
              /\ applyRule(Flip(prevRow, N - 1), ruleLookup)[1] = newRow[1]
              /\ applyRule(Flip(prevRow, 0), ruleLookup)[N] = newRow[N]

\* rule 2 maps only 001 to true: a wrapped neighbour would set cell N-1
C2_Witness ==
    /\ pc = "stepped" /\ ruleNumber = 2 /\ Len(prevRow) = MaxLen
    /\ prevRow = [i \in 1..MaxLen |-> IF i = 1 THEN JsTrue ELSE JsFalse]
    /\ newRow = Fill(MaxLen, JsFalse)

\* C3: applyRule on the all-false row of length N gives the all-true row
\* when 000 maps to true and the all-false row otherwise.
C3_AllFalseRow ==
    (pc = "stepped" /\ prevRow = Fill(Len(prevRow), JsFalse)) =>
        newRow = Fill(Len(prevRow),
                      IF ruleLookup["000"] = JsTrue THEN JsTrue ELSE JsFalse)

C3_Witness ==
    /\ pc = "stepped" /\ prevRow = Fill(MaxLen, JsFalse)
    /\ ruleLookup["000"] = JsTrue /\ ruleLookup["001"] = JsFalse
    /\ newRow = Fill(MaxLen, JsTrue)

\* C16: rule 30 compiles to 111:0 110:0 101:0 100:1 011:1 010:1 001:1 000:0,
\* and under it a seed whose only filled cell is at an interior index k gives
\* a next row whose filled cells are exactly k-1, k and k+1 (cells 5, 6, 7
\* for the 14-column seed with cell 6 filled).
C16_Rule30FirstRow ==
    /\ (pc \in {"compiled", "stepped"} /\ ruleNumber = 30) =>
          ruleLookup = [p \in {"111", "110", "101", "100", "011", "010", "001", "000"} |->
                           Bool(p \in {"100", "011", "010", "001"})]
    /\ (pc = "stepped" /\ ruleNumber = 30) =>
          \A k \in 1..(Len(prevRow) - 2) :
              prevRow = [i \in 1..Len(prevRow) |-> Bool(i - 1 = k)] =>
                  newRow = [i \in 1..Len(prevRow) |-> Bool(i - 1 \in {k - 1, k, k + 1})]

\* the 14-column seed with cell 6 filled
C16_Witness ==
    /\ pc = "stepped" /\ ruleNumber = 30
    /\ prevRow = [i \in 1..14 |-> Bool(i - 1 = 6)]
    /\ newRow = [i \in 1..14 |-> Bool(i - 1 \in {5, 6, 7})]

\* exclusive or of two cells
Xor(a, b) == Bool((a = JsTrue) # (b = JsTrue))

\* the cell at 0-based column c of a row, empty outside the row
CellOrEmpty(row, c) == IF c >= 0 /\ c < Len(row) THEN row[c + 1] ELSE JsFalse

RECURSIVE Binomial(_, _)
Binomial(n, k) ==
    IF k < 0 \/ k > n THEN 0
    ELSE IF k = 0 \/ k = n THEN 1
    ELSE Binomial(n - 1, k - 1) + Binomial(n - 1, k)

\* the Sierpinski reference: row r, d columns to the right of the seed
Sierpinski(r, d) ==
    /\ d <= r /\ -d <= r
    /\ (r + d) % 2 = 0
    /\ Binomial(r, (r + d) \div 2) % 2 = 1

\* C17: under rule 90 every generated cell is the exclusive or of the left and
\* the right neighbour in the row above (empty outside the row), and the
\* example grown from the single seed cell at column `center` matches the
\* Sierpinski reference in its rows 0..7: cell (r, c) is filled iff
\* |c - center| <= r, r + c - center is even and C(r, (r + c - center)/2) is odd.
C17_Rule90Sierpinski ==
    /\ (pc = "stepped" /\ ruleNumber = 90) =>
          \A i \in 0..(Len(prevRow) - 1) :
              newRow[i + 1] = Xor(CellOrEmpty(prevRow, i - 1), CellOrEmpty(prevRow, i + 1))
    /\ (pc = "example" /\ ruleNumber = 90) =>
          LET size == Len(exampleGrid)
              center == size \div 2
          IN /\ size >= 8
             /\ exampleGrid[1] = [j \in 1..size |-> Bool(j - 1 = center)]
             /\ \A r \in 1..(size - 1) : \A c \in 0..(size - 1) :
                   exampleGrid[r + 1][c + 1]
                       = Xor(CellOrEmpty(exampleGrid[r], c - 1),
                             CellOrEmpty(exampleGrid[r], c + 1))
             /\ \A r \in 0..7 : \A c \in 0..(size - 1) :
                   exampleGrid[r + 1][c + 1] = Bool(Sierpinski(r, c - center))

\* the example of rule 90: its row 7 has every second cell filled, its row 4
\* only the two cells four columns from the seed
C17_Witness ==
    /\ pc = "example" /\ ruleNumber = 90
    /\ exampleGrid[8] = [j \in 1..14 |-> Bool(j % 2 = 1)]
    /\ exampleGrid[5] = [j \in 1..14 |-> Bool(j - 1 \in {3, 11})]

----------------------------------------------------------------------------
(* Claims about the exporter, checked under SpecExport *)

\* the filled cells of the nrows x ncols window of g, as (row, column) pairs
FilledCells(g, nrows, ncols) ==
    {rc \in (0..(nrows - 1)) \X (0..(ncols - 1)) :
        /\ rc[1] < Len(g) /\ rc[2] < Len(g[rc[1] + 1])
        /\ g[rc[1] + 1][rc[2] + 1] = JsTrue}

\* up, down, left or right of each other
Adjacent(a, b) ==
    \/ a[1] = b[1] /\ (a[2] = b[2] + 1 \/ b[2] = a[2] + 1)
    \/ a[2] = b[2] /\ (a[1] = b[1] + 1 \/ b[1] = a[1] + 1)

\* the cells of F that S reaches through adjacent cells of F
RECURSIVE Reach(_, _)
Reach(S, F) ==
    LET more == S \cup {b \in F : \E a \in S : Adjacent(a, b)}
    IN IF more = S THEN S ELSE Reach(more, F)

\* the maximal 4-connected sets of F
ComponentsOf(F) == {Reach({a}, F) : a \in F}

\* the bounding box of a set of cells, as the rounded rectangle of the export
BoxOf(K, size, radius) ==
    LET top == CHOOSE r \in {k[1] : k \in K} : \A k \in K : r <= k[1]
        bottom == CHOOSE r \in {k[1] : k \in K} : \A k \in K : r >= k[1]
        left == CHOOSE c \in {k[2] : k \in K} : \A k \in K : c <= k[2]
        right == CHOOSE c \in {k[2] : k \in K} : \A k \in K : c >= k[2]
    IN [x |-> left * size, y |-> top * size,
        width |-> (right - left + 1) * size, height |-> (bottom - top + 1) * size,
        rx |-> radius, ry |-> radius, fill |-> "#000"]

\* the position of the first cell of K in a row-major scan
FirstRank(K, ncols) ==
    CHOOSE n \in {k[1] * ncols + k[2] : k \in K} :
        \A k \in K : n <= k[1] * ncols + k[2]

\* the cells of a component the flood fill returned
CellSet(component) == {component[i] : i \in 1..Len(component)}

\* C5: with corner radius 0 the export holds exactly one cellSize x cellSize
\* rectangle per filled cell, at (col * cellSize, row * cellSize), in
\* row-major order, and no other rectangle: adjacent cells are not merged.
C5_PlainExport ==
    (svg # NoSvg /\ roundedCorners = 0) =>
        LET F == FilledCells(grid, rows, cols)
            R == svg.rects
        IN /\ Len(R) = Cardinality(F)
           /\ \A i \in 1..Len(R) : \E rc \in F :
                 R[i] = [x |-> rc[2] * cellSize, y |-> rc[1] * cellSize,
                         width |-> cellSize, height |-> cellSize, fill |-> "#000"]
           /\ \A i, j \in 1..Len(R) :
                 i < j => \/ R[i].y < R[j].y
                          \/ R[i].y = R[j].y /\ R[i].x < R[j].x

\* two adjacent filled cells stay two rectangles
C5_Witness ==
    /\ svg # NoSvg /\ roundedCorners = 0 /\ rows = 2 /\ cols = 3 /\ cellSize = 10
    /\ grid = << <<JsFalse, JsTrue, JsTrue>>, <<JsTrue, JsFalse, JsFalse>> >>
    /\ svg.rects = << [x |-> 10, y |-> 0, width |-> 10, height |-> 10, fill |-> "#000"],
                      [x |-> 20, y |-> 0, width |-> 10, height |-> 10, fill |-> "#000"],
                      [x |-> 0, y |-> 10, width |-> 10, height |-> 10, fill |-> "#000"] >>

\* C6: with corner radius > 0 the export holds exactly one rectangle per
\* maximal 4-connected component of filled cells (a diagonal does not
\* connect), and it is the component's bounding box in pixels with the radius
\* on rx and ry, also when the component is not a rectangle.
C6_RoundedExport ==
    (svg # NoSvg /\ roundedCorners > 0) =>
        LET Ks == ComponentsOf(FilledCells(grid, rows, cols))
            R == svg.rects
        IN /\ Len(R) = Cardinality(Ks)
           /\ \A K \in Ks : \E i \in 1..Len(R) :
                 R[i] = BoxOf(K, cellSize, roundedCorners)
           /\ \A i \in 1..Len(R) : \E K \in Ks :
                 R[i] = BoxOf(K, cellSize, roundedCorners)

\* the isolated 2 x 2 block at the origin, cell size 10, radius 3
C6_Witness ==
    /\ svg # NoSvg /\ roundedCorners = 3 /\ cellSize = 10 /\ rows = 3 /\ cols = 3
    /\ grid = << <<JsTrue, JsTrue, JsFalse>>, <<JsTrue, JsTrue, JsFalse>>,
                 <<JsFalse, JsFalse, JsFalse>> >>
    /\ svg.rects = << [x |-> 0, y |-> 0, width |-> 20, height |-> 20,
                       rx |-> 3, ry |-> 3, fill |-> "#000"] >>

\* C7: the components the flood fill finds partition the filled cells: their
\* union is the set of filled cells, no cell is in two of them (nor twice in
\* one), and no empty or unset cell is in any.
C7_Partition ==
    (svg # NoSvg /\ roundedCorners > 0) =>
        LET found == ScanAll(grid, rows, cols, cellSize, roundedCorners).components
            F == FilledCells(grid, rows, cols)
        IN /\ UNION {CellSet(found[i]) : i \in 1..Len(found)} = F
           /\ \A i, j \in 1..Len(found) :
                 i # j => CellSet(found[i]) \cap CellSet(found[j]) = {}
           /\ \A i \in 1..Len(found) :
                 /\ Len(found[i]) = Cardinality(CellSet(found[i]))
                 /\ \A k \in 1..Len(found[i]) :
                       grid[found[i][k][1] + 1][found[i][k][2] + 1] = JsTrue

\* two components beside an empty column and above an unset row
C7_Witness ==
    /\ svg # NoSvg /\ roundedCorners > 0 /\ rows = 3 /\ cols = 3
    /\ grid = << <<JsTrue, JsFalse, JsTrue>>, <<JsTrue, JsFalse, JsFalse>>,
                 <<JsNull, JsNull, JsNull>> >>
    /\ ScanAll(grid, rows, cols, cellSize, roundedCorners).components
          = << << <<0, 0>>, <<1, 0>> >>, << <<0, 2>> >> >>

\* C8: in the rounded export the rectangle of the component whose first cell
\* comes earlier in the row-major scan comes earlier in the output.
C8_EmissionOrder ==
    (svg # NoSvg /\ roundedCorners > 0) =>
        LET Ks == ComponentsOf(FilledCells(grid, rows, cols))
            R == svg.rects
        IN /\ \A i \in 1..Len(R) : \E K \in Ks :
                 R[i] = BoxOf(K, cellSize, roundedCorners)
           /\ \A A, B \in Ks :
                 FirstRank(A, cols) < FirstRank(B, cols) =>
                     \E i, j \in 1..Len(R) :
                         /\ i < j
                         /\ R[i] = BoxOf(A, cellSize, roundedCorners)
                         /\ R[j] = BoxOf(B, cellSize, roundedCorners)

\* a single cell at the origin and a component around it whose bounding box
\* starts at the origin too: the single cell is found first
C8_Witness ==
    /\ svg # NoSvg /\ roundedCorners = 3 /\ cellSize = 10 /\ rows = 3 /\ cols = 3
    /\ grid = << <<JsTrue, JsFalse, JsTrue>>, <<JsFalse, JsFalse, JsTrue>>,
                 <<JsTrue, JsTrue, JsTrue>> >>
    /\ svg.rects = << [x |-> 0, y |-> 0, width |-> 10, height |-> 10,
                       rx |-> 3, ry |-> 3, fill |-> "#000"],
                      [x |-> 0, y |-> 0, width |-> 30, height |-> 30,
                       rx |-> 3, ry |-> 3, fill |-> "#000"] >>

\* C11: every document declares width = cols * cellSize and height = rows *
\* cellSize; with a corner radius > 0 every rectangle carries rx and ry, both
\* equal to the radius, and with radius 0 no rectangle carries rx or ry.
C11_EnvelopeAndRadius ==
    svg # NoSvg =>
        /\ svg.width = cols * cellSize
        /\ svg.height = rows * cellSize
        /\ \A i \in 1..Len(svg.rects) :
              LET attrs == DOMAIN svg.rects[i]
              IN IF roundedCorners > 0
                 THEN /\ {"rx", "ry"} \subseteq attrs
                      /\ svg.rects[i].rx = roundedCorners
                      /\ svg.rects[i].ry = roundedCorners
                 ELSE attrs \cap {"rx", "ry"} = {}

\* a rounded export of a grid that is wider than it is high, with two rectangles
C11_Witness ==
    /\ svg # NoSvg /\ roundedCorners = 3 /\ cellSize = 10 /\ rows = 2 /\ cols = 3
    /\ svg.width = 30 /\ svg.height = 20
    /\ Len(svg.rects) = 2
    /\ svg.rects[1].rx = 3 /\ svg.rects[2].ry = 3

\* the sum of the lengths of the sequences of seqs, from the i-th on
RECURSIVE TotalLen(_, _)
TotalLen(seqs, i) == IF i > Len(seqs) THEN 0 ELSE Len(seqs[i]) + TotalLen(seqs, i + 1)

\* C23: for every grid the flood fills of the rounded export come to an end,
\* after exactly one loop iteration per start of a fill and four per filled
\* cell; every filled cell, and no other cell, is marked visited, and every
\* filled cell is appended to a component exactly once: the sizes of the
\* components add up to the number of filled cells.
C23_FloodFillOnce ==
    (svg # NoSvg /\ roundedCorners > 0) =>
        LET s == ScanAll(grid, rows, cols, cellSize, roundedCorners)
            F == FilledCells(grid, rows, cols)
            appended == UNION {CellSet(s.components[i]) : i \in 1..Len(s.components)}
        IN /\ s.pops = Len(s.components) + 4 * Cardinality(F)
           /\ \A r \in 0..(rows - 1) : \A c \in 0..(cols - 1) :
                 s.visited[r][c] <=> (<<r, c>> \in F)
           /\ appended = F
           /\ TotalLen(s.components, 1) = Cardinality(F)

\* the plus of five cells: one component, found after 1 + 4 * 5 iterations
C23_Witness ==
    /\ svg # NoSvg /\ roundedCorners > 0 /\ rows = 3 /\ cols = 3
    /\ grid = << <<JsFalse, JsTrue, JsFalse>>, <<JsTrue, JsTrue, JsTrue>>,
                 <<JsFalse, JsTrue, JsFalse>> >>
    /\ ScanAll(grid, rows, cols, cellSize, roundedCorners).pops = 21
    /\ Len(ScanAll(grid, rows, cols, cellSize, roundedCorners).components[1]) = 5

----------------------------------------------------------------------------
(* Claims about generation and about the export of the editor's grid *)

\* rows 0..k obtained by applying applyRule k times, in one batch, from seed
RECURSIVE Batch(_, _, _)
Batch(seed, table, k) ==
    IF k = 0 THEN <<seed>>
    ELSE LET above == Batch(seed, table, k - 1)
         IN Append(above, applyRule(above[k], table))

\* C4: when a generation runs with no other action in between, after the
\* tick for row k the rows 0..k of the grid are the rows a batch of k
\* applications of applyRule gives from the seed under getRuleLookup(rule),
\* and the finished grid is the batch grid of `rows` rows.
C4_RowAtATimeIsBatch ==
    /\ Len(timeouts) > 0 =>
          LET k == Head(timeouts).currentRow - 1
          IN SubSeq(grid, 1, k + 1) = Batch(grid[1], getRuleLookup(rule), k)
    /\ (hasGenerated /\ ~isAnimating) =>
          grid = Batch(grid[1], getRuleLookup(rule), rows - 1)

\* rule 30 from the seed 0100 in four rows
C4_Witness ==
    /\ hasGenerated /\ ~isAnimating /\ Len(timeouts) = 0
    /\ rule = 30 /\ rows = 4 /\ cols = 4
    /\ grid = << <<JsFalse, JsTrue, JsFalse, JsFalse>>,
                 <<JsTrue, JsTrue, JsTrue, JsFalse>>,
                 <<JsTrue, JsFalse, JsFalse, JsTrue>>,
                 <<JsTrue, JsTrue, JsTrue, JsTrue>> >>

\* g with every unset cell made empty
UnsetAsEmpty(g) ==
    [i \in 1..Len(g) |->
        [j \in 1..Len(g[i]) |-> IF g[i][j] = JsNull THEN JsFalse ELSE g[i][j]]]

\* the cells of the nrows x ncols window that the rectangle covers
CoveredCells(rect, nrows, ncols, size) ==
    {rc \in (0..(nrows - 1)) \X (0..(ncols - 1)) :
        /\ rect.x <= rc[2] * size /\ rc[2] * size < rect.x + rect.width
        /\ rect.y <= rc[1] * size /\ rc[1] * size < rect.y + rect.height}

\* C9: the export treats unset cells as empty, with and without rounding and
\* also in the middle of an animation: the document is the one of the grid
\* with every unset cell made empty, and no rectangle covers an unset cell.
C9_UnsetIsEmpty ==
    svg # NoSvg =>
        /\ svg = generateSVG(UnsetAsEmpty(grid), rows, cols, cellSize, roundedCorners)
        /\ \A i \in 1..Len(svg.rects) :
              \A rc \in CoveredCells(svg.rects[i], rows, cols, cellSize) :
                  GridCell(grid, rc[1], rc[2]) # JsNull

\* a rounded export while the animation has written row 1 and not yet row 2
C9_Witness ==
    /\ svg # NoSvg /\ isAnimating /\ Len(timeouts) = 1 /\ roundedCorners > 0
    /\ rows = 3 /\ Len(grid) = 3
    /\ \E c \in 1..cols : grid[2][c] = JsTrue
    /\ grid[3] = Fill(cols, JsNull)
    /\ Len(svg.rects) > 0

----------------------------------------------------------------------------
(* Claims about the grid of the editor, checked under Spec *)

\* the row holds a cell that is filled or empty
SomeDefined(row) == \E c \in 1..Len(row) : row[c] # JsNull

\* the row holds no unset cell
FullyDefined(row) == \A c \in 1..Len(row) : row[c] # JsNull

\* C12: in every reachable state, a row r > 0 that holds a defined cell lies
\* below a row r-1 that is fully defined: no row is computed from a row that
\* still holds unset cells.
C12_RowsDefinedInOrder ==
    \A r \in 1..(Len(grid) - 1) :
        SomeDefined(grid[r + 1]) => FullyDefined(grid[r])

\* C13: in every reachable state row 0 of the grid holds no unset cell,
\* whatever was drawn, erased, seeded, resized, cleared, reset or generated.
C13_SeedRowDefined ==
    Len(grid) > 0 => FullyDefined(grid[1])

\* a seed with a cell erased, after a generation that ran to its end
C13_Witness ==
    /\ hasGenerated /\ ~isAnimating /\ tool = "erase" /\ isDrawing
    /\ cols = DefaultCols /\ rows = DefaultRows
    /\ grid[1] = [c \in 1..DefaultCols |-> IF c = 1 THEN JsFalse ELSE JsTrue]
    /\ FullyDefined(grid[DefaultRows])

\* C14: in every reachable state the grid has exactly `rows` rows and every
\* row has exactly `cols` cells, also when rows or cols was changed while a
\* generation is animating.
C14_GridIsRowsByCols ==
    /\ Len(grid) = rows
    /\ \A r \in 1..Len(grid) : Len(grid[r]) = cols

\* C15: every step that changes rows or cols, in any state and also in the
\* middle of an animation, leaves a grid of the new rows x cols in which row
\* 0 is all empty and every other row all unset, and leaves hasGenerated
\* false: no seed and no generated row survives the resize.
C15_ResizeGivesFreshGrid ==
    [][(rows' # rows \/ cols' # cols) =>
          /\ Len(grid') = rows'
          /\ \A r \in 1..rows' :
                grid'[r] = [c \in 1..cols' |-> IF r = 1 THEN JsFalse ELSE JsNull]
          /\ hasGenerated' = FALSE]_vars

\* right after a resize in the middle of an animation: the pending timeout
\* still holds the old row count and the grid is fresh
C15_Witness ==
    /\ isAnimating /\ Len(timeouts) = 1 /\ timeouts[1].rows # rows
    /\ ~hasGenerated
    /\ rows > 1 /\ Len(grid) = rows
    /\ \A r \in 1..rows : grid[r] = Fill(cols, IF r = 1 THEN JsFalse ELSE JsNull)

\* C19: a rows or cols value outside 5..50 is rejected before a grid is
\* allocated: the dimensions stay in 5..50 and the grid never has fewer than
\* 5 or more than 50 rows or columns.
C19_DimensionsInRange ==
    /\ rows \in MinDim..MaxDim
    /\ cols \in MinDim..MaxDim
    /\ Len(grid) \in MinDim..MaxDim
    /\ \A r \in 1..Len(grid) : Len(grid[r]) \in MinDim..MaxDim

\* no generation is running and no timeout is pending
Idle == ~isAnimating /\ timeouts = <<>>

\* the step writes no row below the seed: a row r >= 1 that holds a defined
\* cell after the step is the row r of before
NoRowWritten ==
    \A r \in 2..Len(grid') :
        SomeDefined(grid'[r]) => (r <= Len(grid) /\ grid'[r] = grid[r])

\* C20: a resetImage, clearAll or resetToDefaults taken while a generation
\* is animating leaves isAnimating false and no timeout pending; from then on
\* the only step that sets a timeout, sets isAnimating or writes a row is a
\* generatePattern step;
\* and resetToDefaults with rows and cols at their defaults leaves the grid,
\* with the rows computed so far, as it is.
C20_CancellationStops ==
    [][/\ (isAnimating /\ (resetImage \/ clearAll \/ resetToDefaults)) => Idle'
       /\ (Idle /\ ~(Idle' /\ NoRowWritten)) => generatePattern
       /\ (rows = DefaultRows /\ cols = DefaultCols /\ resetToDefaults) => grid' = grid
      ]_vars

\* Reset Settings was clicked after row 1 was computed and before row 2:
\* the generation has stopped and row 1 is still there
C20_Witness ==
    /\ Idle /\ ~hasGenerated /\ ~crashed
    /\ rows = DefaultRows /\ cols = DefaultCols /\ Len(grid) = DefaultRows
    /\ FullyDefined(grid[2])
    /\ grid[DefaultRows] = Fill(cols, JsNull)

\* what a call handleCellInteraction(r, c, isClick) may do to the editor
SeedEdit(r, c, isClick) ==
    /\ UNCHANGED <<cols, rows, rule, hasGenerated>>
    /\ IF r # 0 \/ (~isClick /\ ~isDrawing)
       THEN grid' = grid
       ELSE /\ Len(grid') = Len(grid)
            /\ \A i \in 1..Len(grid) :
                  /\ Len(grid'[i]) = Len(grid[i])
                  /\ \A j \in 1..Len(grid[i]) :
                        grid'[i][j] = IF i = 1 /\ j = c + 1
                                      THEN (IF tool = "draw" THEN JsTrue ELSE JsFalse)
                                      ELSE grid[i][j]

\* (checked under SpecDraw)
\* C21: a mouse-down or mouse-enter on the cell (r, c) leaves the grid as it
\* is when r # 0 or when it is neither a click nor a drag in progress;
\* otherwise it changes at most the cell (0, c), to filled under the draw tool
\* and to empty under the erase tool; every other cell, the dimensions, the
\* rule and hasGenerated stay as they are.
C21_DrawingEditsSeedOnly ==
    [][\A r \in 0..(Len(grid) - 1) : \A c \in 0..(Len(grid[r + 1]) - 1) :
          /\ MouseEnter(r, c) => SeedEdit(r, c, FALSE)
          /\ MouseDown(r, c) => (SeedEdit(r, c, TRUE) /\ (r # 0 => UNCHANGED isDrawing))
      ]_vars

\* in the middle of a drag with the eraser over a generated pattern: the
\* seed has lost its first cell, the generated rows are untouched
C21_Witness ==
    /\ isDrawing /\ tool = "erase" /\ hasGenerated /\ ~isAnimating
    /\ rows = DefaultRows /\ cols = DefaultCols /\ Len(grid) = DefaultRows
    /\ grid[1] = Fill(DefaultCols, JsFalse)
    /\ \A r \in 2..DefaultRows : FullyDefined(grid[r])
    /\ \E c \in 1..DefaultCols : grid[2][c] = JsTrue

\* C22: a generation uses one rule table. The step that starts it compiles
\* the table from the rule selected then and writes row 1 with it; every
\* later step, a change of the selected rule included, leaves the table of
\* the pending tick as it is, and a tick writes its row with that table.
C22_FixedRuleTable ==
    [][/\ (timeouts = <<>> /\ timeouts' # <<>>) =>
             /\ timeouts'[1].ruleLookup = getRuleLookup(rule)
             /\ grid'[2] = applyRule(grid[1], getRuleLookup(rule))
       /\ (timeouts # <<>> /\ timeouts' # <<>>) =>
             /\ timeouts'[1].ruleLookup = timeouts[1].ruleLookup
             /\ timeouts'[1].currentRow # timeouts[1].currentRow =>
                   LET k == timeouts[1].currentRow
                   IN grid'[k + 1] = applyRule(grid[k], timeouts[1].ruleLookup)
      ]_vars

\* rule 90 is selected while a generation started under rule 30 is running:
\* the tick wrote row 2 with the table of rule 30, which differs from what
\* rule 90 gives
C22_Witness ==
    /\ isAnimating /\ ~crashed /\ rule = 90
    /\ Len(timeouts) = 1 /\ timeouts[1].currentRow = 3
    /\ timeouts[1].ruleLookup = getRuleLookup(30)
    /\ Len(grid) >= 3
    /\ grid[3] = applyRule(grid[2], getRuleLookup(30))
    /\ grid[3] # applyRule(grid[2], getRuleLookup(90))

\* (checked under SpecGenerateFair)
\* C24: a generation that is started and left alone finishes.  The click on
\* Generate Pattern writes row 1 (or, with a single row, finishes at once) and
\* arms the tick of row 2; the tick of row k < rows writes row k from row k - 1,
\* leaves every other row alone and arms the tick of row k + 1; the tick of row
\* `rows` writes nothing, sets isAnimating to false and hasGenerated to true.
\* The grid never gets a row past rows - 1, and an animating editor always
\* comes to rest with hasGenerated true.
C24_GenerationFinishes ==
    /\ [][/\ (~isAnimating /\ generatePattern) =>
               IF rows <= 1
               THEN ~isAnimating' /\ hasGenerated' /\ timeouts' = <<>> /\ grid' = grid
               ELSE /\ grid' = [grid EXCEPT ![2] = applyRule(grid[1], getRuleLookup(rule))]
                    /\ isAnimating' /\ Len(timeouts') = 1
                    /\ timeouts'[1].currentRow = 2
          /\ Tick =>
               LET k == timeouts[1].currentRow
               IN IF k >= rows
                  THEN ~isAnimating' /\ hasGenerated' /\ timeouts' = <<>> /\ grid' = grid
                  ELSE /\ grid' = [grid EXCEPT ![k + 1] =
                                       applyRule(grid[k], timeouts[1].ruleLookup)]
                       /\ isAnimating' /\ Len(timeouts') = 1
                       /\ timeouts'[1].currentRow = k + 1
                       /\ hasGenerated' = hasGenerated
         ]_vars
    /\ [](Len(grid) = rows /\ ~crashed)
    /\ (isAnimating ~> (~isAnimating /\ hasGenerated /\ timeouts = <<>>))

C24_Witness ==
    /\ hasGenerated /\ ~isAnimating /\ timeouts = <<>> /\ ~crashed
    /\ rows = 4 /\ cols = 3 /\ rule = 30 /\ Len(grid) = 4
    /\ grid[1] = <<JsFalse, JsTrue, JsFalse>>
    /\ \A r \in 1..3 : grid[r + 1] = applyRule(grid[r], getRuleLookup(30))

\* C25: at most one generation runs at a time.  A click on Generate Pattern
\* while isAnimating is true changes neither the grid nor the pending timeouts
\* nor isAnimating nor hasGenerated; in every reachable state at most one
\* timeout is pending, and one is pending only while isAnimating is true.
C25_OneGenerationAtATime ==
    /\ [](Len(timeouts) <= 1 /\ (timeouts # <<>> => isAnimating))
    /\ [][(isAnimating /\ generatePattern) =>
              UNCHANGED <<grid, timeouts, isAnimating, hasGenerated, rows, cols, rule>>]_vars

C25_Witness ==
    /\ isAnimating /\ ~hasGenerated /\ ~crashed /\ rows = DefaultRows
    /\ Len(timeouts) = 1 /\ timeouts[1].currentRow = 2 /\ timeouts[1].rows = DefaultRows
    /\ FullyDefined(grid[2])

\* C26: in every reachable state with hasGenerated true, each of the rows
\* 1..rows-1 is present in the grid and has every cell defined.
C26_GeneratedMeansComplete ==
    hasGenerated => \A r \in 2..rows : r <= Len(grid) /\ FullyDefined(grid[r])

\* C27: no tick reads a row that is missing: whatever the user does, the
\* editor never reaches the state in which animate(k) has found
\* newGrid[k - 1] undefined and has called applyRule on it.
C27_TickReadsExistingRow == ~crashed

\* C28: for every grid, cell size and radius > 0 the exporter of lines
\* 232-297, which emits the bounding rectangle of a component as soon as the
\* scan has found it, and the copy of lines 929-1000, which collects the
\* components first and treats those of one cell apart, give the same
\* envelope and the same rectangles in the same order.
C28_CopiesAgree ==
    (svg # NoSvg /\ roundedCorners > 0) =>
        LET other == generateSVG_collected(grid, rows, cols, cellSize, roundedCorners)
        IN /\ svg.width = other.width /\ svg.height = other.height
           /\ Len(svg.rects) = Len(other.rects)
           /\ \A i \in 1..Len(svg.rects) : svg.rects[i] = other.rects[i]

\* a component of one cell at row 0, column 1 and one of two cells below it
C28_Witness ==
    /\ svg # NoSvg /\ roundedCorners > 0 /\ rows = 3 /\ cols = 2
    /\ grid = << <<JsFalse, JsTrue>>, <<JsFalse, JsFalse>>, <<JsTrue, JsTrue>> >>
    /\ Len(svg.rects) = 2
    /\ svg.rects[1].x = cellSize /\ svg.rects[1].y = 0 /\ svg.rects[1].width = cellSize
    /\ svg.rects[2].width = 2 * cellSize /\ svg.rects[2].y = 2 * cellSize
    /\ generateSVG_collected(grid, rows, cols, cellSize, roundedCorners).rects = svg.rects

====
